---- MODULE Spec2Model ----
(***************************************************************************)
(* gtav-saveload (src/bin/gtav-saveload.rs): a command line tool that      *)
(* copies GTA V save files ("SGTA*") between a profile directory and slot  *)
(* directories under <profile>/Slots.                                      *)
(*                                                                         *)
(* The state is the file tree under <USERPROFILE>/Documents/Rockstar       *)
(* Games/GTA V, the command line, and the position of main().  Loops over  *)
(* files take one step per file, so that the state in which a failing call *)
(* leaves the tree is a state of the model.  The order in which read_dir   *)
(* yields entries is not specified: a loop takes any pending entry next,   *)
(* and the sorts start from any order of the entries.                      *)
(***************************************************************************)
EXTENDS Integers, Sequences, FiniteSets, TLC

VARIABLES
  fs,        \* the file tree: path (a sequence of names) -> node
  mtime,     \* slot directory -> its modification time (fs::metadata)
  home,      \* whether the environment variable USERPROFILE is set
  args,      \* the command line: flag -> value ("" for a flag without one)
  profiles,  \* existing_profiles, in read_dir's order
  pi,        \* index of the profile being processed
  pos,       \* index in FlagOrder of the flag main() is at
  stage,     \* where main() is: start, flag, delete, copy, rmdir, exit
  from,      \* copy_save_files' `from`
  to,        \* copy_save_files' `to`, delete_save_files' `path`
  pending,   \* what is left of the Vec a loop iterates over
  result,    \* running, ok (main returned Ok) or err (main returned Err)
  fault,     \* the last call that failed, "none" if none did
  stdout,    \* the lines printed
  run,       \* the number of the invocation of the program
  fs0,       \* history: the file tree when the first invocation started
  entry,     \* history: the file tree when delete_save_files was last entered
  ran        \* history: the <<profile, flag>> operations completed in this run

vars == <<fs, mtime, home, args, profiles, pi, pos, stage, from, to, pending,
          result, fault, stdout, run, fs0, entry, ran>>

----------------------------------------------------------------------------
(* Bounds of the model. *)

\* File contents are 1..MaxData (0 is a file a failed copy left incomplete).
MaxData == 2
\* Modification times are 1..MaxTime.
MaxTime == 3

Data == 1..MaxData
Times == 1..MaxTime

----------------------------------------------------------------------------
(* Strings.  TLC cannot index a string, so the predicates on names work on *)
(* the names' characters, listed here for every name of the model.         *)

Chars(s) ==
  CASE s = "SGTA"     -> <<"S", "G", "T", "A">>
    [] s = "SGTA001"  -> <<"S", "G", "T", "A", "0", "0", "1">>
    [] s = "SGTA002"  -> <<"S", "G", "T", "A", "0", "0", "2">>
    [] s = "SGTAbak"  -> <<"S", "G", "T", "A", "b", "a", "k">>
    [] s = "cfgSGTA"  -> <<"c", "f", "g", "S", "G", "T", "A">>
    [] s = "Slots"    -> <<"S", "l", "o", "t", "s">>
    [] s = "Save Files" -> <<"S", "a", "v", "e", " ", "F", "i", "l", "e", "s">>
    [] s = "slot1"    -> <<"s", "l", "o", "t", "1">>
    [] s = "slot2"    -> <<"s", "l", "o", "t", "2">>
    [] s = "slot3"    -> <<"s", "l", "o", "t", "3">>
    [] s = "ab"       -> <<"a", "b">>
    [] s = "abc"      -> <<"a", "b", "c">>
    [] s = "b"        -> <<"b">>
    [] s = "c"        -> <<"c">>
    [] s = "z"        -> <<"z">>
    [] s = "0"        -> <<"0">>
    [] s = "1"        -> <<"1">>
    [] s = "2"        -> <<"2">>
    [] s = "3"        -> <<"3">>
    [] s = "+1"       -> <<"+", "1">>
    [] s = "10"       -> <<"1", "0">>
    [] s = "x"        -> <<"x">>

\* The characters of the model in the order of their code points.
Alphabet ==
  <<" ", "+", "0", "1", "2", "3", "4", "5", "6", "7", "8", "9",
    "A", "F", "G", "S", "T",
    "a", "b", "c", "e", "f", "g", "i", "k", "l", "o", "s", "t", "v", "x", "z">>

Code(c) == CHOOSE i \in 1..Len(Alphabet) : Alphabet[i] = c

\* str::starts_with
StartsWith(s, prefix) ==
  LET a == Chars(s)
      b == Chars(prefix)
  IN  Len(a) >= Len(b) /\ SubSeq(a, 1, Len(b)) = b

\* str::contains
Contains(s, pat) ==
  LET a == Chars(s)
      b == Chars(pat)
  IN  \E i \in 0..(Len(a) - Len(b)) : SubSeq(a, i + 1, i + Len(b)) = b

\* Ord for str: the comparison of the bytes, a prefix before its extensions.
\* "less", "equal" or "greater".
RECURSIVE CmpChars(_, _)
CmpChars(a, b) ==
  IF a = <<>> /\ b = <<>> THEN "equal"
  ELSE IF a = <<>> THEN "less"
  ELSE IF b = <<>> THEN "greater"
  ELSE IF Code(Head(a)) < Code(Head(b)) THEN "less"
  ELSE IF Code(Head(a)) > Code(Head(b)) THEN "greater"
  ELSE CmpChars(Tail(a), Tail(b))

\* Variant: the comparison of the lengths, then of the bytes.
CmpStrByLength(s, t) ==
  IF Len(Chars(s)) < Len(Chars(t)) THEN "less"
  ELSE IF Len(Chars(s)) > Len(Chars(t)) THEN "greater"
  ELSE CmpChars(Chars(s), Chars(t))

CmpStr(s, t) == CmpChars(Chars(s), Chars(t))

\* Variant: the comparison reversed, which sorts the oldest first.
CmpIntReversed(a, b) == IF a < b THEN "greater" ELSE IF a > b THEN "less" ELSE "equal"

CmpInt(a, b) == IF a < b THEN "less" ELSE IF a > b THEN "greater" ELSE "equal"

\* str::parse::<usize>: an optional "+", then one or more decimal digits.
DigitChars == <<"0", "1", "2", "3", "4", "5", "6", "7", "8", "9">>

IsDigit(c) == \E i \in 1..10 : DigitChars[i] = c

DigitVal(c) == (CHOOSE i \in 1..10 : DigitChars[i] = c) - 1

RECURSIVE DigitsVal(_, _)
DigitsVal(cs, acc) ==
  IF cs = <<>> THEN acc ELSE DigitsVal(Tail(cs), acc * 10 + DigitVal(Head(cs)))

ParseUsize(s) ==
  LET cs == Chars(s)
      ds == IF cs # <<>> /\ Head(cs) = "+" THEN Tail(cs) ELSE cs
  IN  IF ds # <<>> /\ \A i \in 1..Len(ds) : IsDigit(ds[i])
      THEN [ok |-> TRUE, v |-> DigitsVal(ds, 0)]
      ELSE [ok |-> FALSE, v |-> 0]

\* slice::sort_by: a stable sort; cmp[a, b] is the comparator's Ordering.
RECURSIVE InsertBy(_, _, _)
InsertBy(sorted, x, cmp) ==
  IF sorted = <<>> THEN <<x>>
  ELSE IF cmp[sorted[Len(sorted)], x] = "greater"
       THEN Append(InsertBy(SubSeq(sorted, 1, Len(sorted) - 1), x, cmp),
                   sorted[Len(sorted)])
       ELSE Append(sorted, x)

RECURSIVE SortBy(_, _)
SortBy(seq, cmp) ==
  IF seq = <<>> THEN <<>>
  ELSE InsertBy(SortBy(SubSeq(seq, 1, Len(seq) - 1), cmp), seq[Len(seq)], cmp)

\* The orders in which read_dir may yield the entries S.
Orders(S) ==
  {o \in [1..Cardinality(S) -> S] : \A i, j \in 1..Cardinality(S) : i # j => o[i] # o[j]}

----------------------------------------------------------------------------
(* The file tree.  A path is the sequence of names below the GTA V         *)
(* directory; fs maps the paths that exist to their node.                  *)

DirNode == [k |-> "dir"]

File(d) == [k |-> "file", d |-> d]

\* Path::join
Join(path, name) == Append(path, name)

\* Path::file_name (every name of the model is valid Unicode, so to_str is
\* never None and the `continue` of find_matching is never taken)
FileName(path) == path[Len(path)]

Parent(path) == SubSeq(path, 1, Len(path) - 1)

\* Path::is_dir
IsDir(f, path) == path \in DOMAIN f /\ f[path].k = "dir"

\* The entries fs::read_dir yields.
Entries(f, dir) == {q \in DOMAIN f : Len(q) = Len(dir) + 1 /\ Parent(q) = dir}

\* Variant: the entry is not removed.
RemoveNothing(f, path) == f

\* fs::remove_file, fs::remove_dir
Remove(f, path) == [q \in DOMAIN f \ {path} |-> f[q]]

\* Variant: the directory is not created.
CreateNothing(f, path) == f

\* fs::create_dir
CreateDir(f, path) == [q \in DOMAIN f \cup {path} |-> IF q = path THEN DirNode ELSE f[q]]

\* Variant: a move, the source is removed.
MoveFile(f, src, dst) ==
  [q \in (DOMAIN f \cup {dst}) \ {src} |-> IF q = dst THEN f[src] ELSE f[q]]

\* Variant: the destination is created and not filled.
CopyTruncated(f, src, dst) ==
  [q \in DOMAIN f \cup {dst} |-> IF q = dst THEN File(0) ELSE f[q]]

\* fs::copy
CopyFile(f, src, dst) == [q \in DOMAIN f \cup {dst} |-> IF q = dst THEN f[src] ELSE f[q]]

\* What fs::copy may leave behind when it fails: nothing changed, or a
\* destination file that was created or truncated and not filled.
CopyFailed(f, dst) ==
  {f} \cup (IF IsDir(f, dst) THEN {}
            ELSE {[q \in DOMAIN f \cup {dst} |-> IF q = dst THEN File(0) ELSE f[q]]})

ProfilesDir == <<"Profiles">>

SlotsOf(profile) == Join(profile, "Slots")

\* The directories whose modification time the program reads: the entries of
\* a Slots directory.
IsSlotPath(path) == Len(path) = 4 /\ path[3] = "Slots"

\* The times the file system may stamp on a directory it changes now: none
\* earlier than a time already stamped.
Later(m) == {t \in Times : \A d \in DOMAIN m : m[d] <= t}

\* The modification times after an entry of `dir` was created or removed, or
\* `dir` itself created, at time t.
Touch(m, dir, t) ==
  IF IsSlotPath(dir) THEN [d \in DOMAIN m \cup {dir} |-> IF d = dir THEN t ELSE m[d]] ELSE m

Untouch(m, dir) == [d \in DOMAIN m \ {dir} |-> m[d]]

\* The stamps to choose from when `dir` changes: one choice when its time is
\* not modelled.
Stamps(m, dir) == IF IsSlotPath(dir) THEN Later(m) ELSE {0}

----------------------------------------------------------------------------
(* The directory scans. *)

IsSaveName(n) == StartsWith(n, "SGTA")

\* The names of the entries of a directory.
Names(f, path) == {FileName(q) : q \in Entries(f, path)}

\* find_matching(path, p, m): p is is_file ("file") or is_dir ("dir"), m maps
\* each entry's name to whether it matches.
find_matching(f, path, p, m) ==
  {q \in Entries(f, path) : f[q].k = p /\ m[FileName(q)]}

list_save_files(f, path) ==
  find_matching(f, path, "file", [n \in Names(f, path) |-> IsSaveName(n)])

list_name_contains(f, path, name) ==
  find_matching(f, path, "dir", [n \in Names(f, path) |-> Contains(n, name)])

----------------------------------------------------------------------------
(* main(): control. *)

\* Variant: main() tests --load before --save.
FlagOrderLoadFirst ==
  <<"load", "save", "load-save-file", "save-dated", "clear-profile",
    "load-nth-newest-slot", "delete-nth-newest-slot">>

\* The order in which main() tests the flags for each profile.
FlagOrder ==
  <<"save", "load", "load-save-file", "save-dated", "clear-profile",
    "load-nth-newest-slot", "delete-nth-newest-slot">>

Profile == profiles[pi]

Flag == FlagOrder[pos]

\* The flags whose operation ends in copy_save_files.
CopyFlags == {"save", "load", "load-save-file", "save-dated", "load-nth-newest-slot"}

Static == <<home, args, profiles, run, fs0>>

\* main() is at `if let Some(..) = matches.value_of(f)` and the flag is given.
AtFlag(f) == result = "running" /\ stage = "flag" /\ Flag = f /\ f \in DOMAIN args

\* Variant: the Err is noted and main goes on.
ThrowIgnored(call, forced) ==
  /\ result' = result
  /\ fault' = [call |-> call, forced |-> forced]

\* `?` on an Err: main returns the error.
Throw(call, forced) ==
  /\ result' = "err"
  /\ fault' = [call |-> call, forced |-> forced]

Fault(f, m, call, forced) == [fs |-> f, mtime |-> m, call |-> call, forced |-> forced]

\* The end of a flag's `if`: on to the next flag, then to the next profile,
\* then to Ok(()).
Continue ==
  IF pos < Len(FlagOrder)
  THEN pos' = pos + 1 /\ pi' = pi /\ stage' = "flag" /\ result' = result
  ELSE IF pi < Len(profiles)
       THEN pos' = 1 /\ pi' = pi + 1 /\ stage' = "flag" /\ result' = result
       ELSE pos' = pos /\ pi' = pi /\ stage' = "exit" /\ result' = "ok"

\* The flag's operation returned Ok.
Finish ==
  /\ ran' = Append(ran, <<Profile, Flag>>)
  /\ Continue

\* The flag is not given.
SkipFlag ==
  /\ result = "running" /\ stage = "flag" /\ Flag \notin DOMAIN args
  /\ Continue
  /\ UNCHANGED <<fs, mtime, from, to, pending, fault, stdout, entry, ran>>
  /\ UNCHANGED Static

\* delete_save_files(dst) is entered in the tree f (after the calls that made
\* f of fs), as the first call of copy_save_files(src, dst) or on its own:
\* list_save_files(dst) is read; or one of the calls so far failed, `earlier`
\* naming the calls before the read and the tree each one leaves.
Enter(f, m, src, dst, earlier) ==
  \/ /\ IsDir(f, dst)
     /\ fs' = f /\ mtime' = m
     /\ from' = src /\ to' = dst
     /\ pending' = list_save_files(f, dst)
     /\ stage' = "delete"
     /\ entry' = f
     /\ UNCHANGED <<pi, pos, result, fault, stdout, ran>>
  \/ \E x \in earlier \cup {Fault(f, m, "read_dir", ~IsDir(f, dst))} :
       /\ fs' = x.fs /\ mtime' = x.mtime
       /\ Throw(x.call, x.forced)
       /\ UNCHANGED <<pi, pos, stage, from, to, pending, stdout, entry, ran>>

\* ensure_slot(profile), then `if !slot.is_dir() { fs::create_dir(&slot)?; }`
\* for slot = Slots/name: the trees and times the two create_dir calls may
\* leave, with the calls that may have failed before.
OpenSlot(profile, name) ==
  LET slots == SlotsOf(profile)
      slot == Join(slots, name)
      f1 == IF IsDir(fs, slots) THEN fs ELSE CreateDir(fs, slots)
      f2 == IF IsDir(f1, slot) THEN f1 ELSE CreateDir(f1, slot)
      e1 == IF IsDir(fs, slots) THEN {} ELSE {Fault(fs, mtime, "create_dir", FALSE)}
      e2 == IF IsDir(f1, slot) THEN {} ELSE {Fault(f1, mtime, "create_dir", FALSE)}
  IN  {[fs |-> f2,
        mtime |-> IF IsDir(f1, slot) THEN mtime ELSE Touch(mtime, slot, t),
        slot |-> slot,
        earlier |-> e1 \cup e2] : t \in IF IsDir(f1, slot) THEN {0} ELSE Later(mtime)}

\* --save <slot>
SaveFlag ==
  /\ AtFlag("save")
  /\ \E o \in OpenSlot(Profile, args["save"]) : Enter(o.fs, o.mtime, Profile, o.slot, o.earlier)
  /\ UNCHANGED Static

\* --load <slot>
LoadFlag ==
  /\ AtFlag("load")
  /\ \E o \in OpenSlot(Profile, args["load"]) : Enter(o.fs, o.mtime, o.slot, Profile, o.earlier)
  /\ UNCHANGED Static

\* delete_save_files' loop: one file is removed, or fs::remove_file fails.
DeleteStep ==
  /\ result = "running" /\ stage = "delete"
  /\ \E p \in pending :
       /\ stdout' = Append(stdout, <<"delete", p>>)
       /\ \/ \E t \in Stamps(mtime, to) :
               /\ fs' = Remove(fs, p)
               /\ mtime' = Touch(mtime, to, t)
               /\ pending' = pending \ {p}
               /\ UNCHANGED <<result, fault>>
          \/ /\ Throw("remove_file", FALSE)
             /\ UNCHANGED <<fs, mtime, pending>>
  /\ UNCHANGED <<pi, pos, stage, from, to, entry, ran>>
  /\ UNCHANGED Static

\* copy_save_files after delete_save_files returned: list_save_files(from).
ListFrom ==
  /\ result = "running" /\ stage = "delete" /\ pending = {} /\ Flag \in CopyFlags
  /\ \/ /\ IsDir(fs, from)
        /\ pending' = list_save_files(fs, from)
        /\ stage' = "copy"
        /\ UNCHANGED <<result, fault>>
     \/ /\ Throw("read_dir", ~IsDir(fs, from))
        /\ UNCHANGED <<pending, stage>>
  /\ UNCHANGED <<fs, mtime, pi, pos, from, to, stdout, entry, ran>>
  /\ UNCHANGED Static

\* copy_save_files' loop: one file is copied, or fs::copy fails.
CopyStep ==
  /\ result = "running" /\ stage = "copy"
  /\ \E p \in pending :
       LET dest == Join(to, FileName(p)) IN
       /\ stdout' = Append(stdout, <<"copy", p, dest>>)
       /\ \/ /\ ~IsDir(fs, dest)
             /\ \E t \in Stamps(mtime, to) :
                  /\ fs' = CopyFile(fs, p, dest)
                  /\ mtime' = IF dest \in DOMAIN fs THEN mtime ELSE Touch(mtime, to, t)
             /\ pending' = pending \ {p}
             /\ UNCHANGED <<result, fault>>
          \/ /\ \E g \in CopyFailed(fs, dest) : \E t \in Stamps(mtime, to) :
                  /\ fs' = g
                  /\ mtime' = IF DOMAIN g = DOMAIN fs THEN mtime ELSE Touch(mtime, to, t)
             /\ Throw("copy", IsDir(fs, dest))
             /\ UNCHANGED pending
  /\ UNCHANGED <<pi, pos, stage, from, to, entry, ran>>
  /\ UNCHANGED Static

\* copy_save_files returns Ok(()).
CopyDone ==
  /\ result = "running" /\ stage = "copy" /\ pending = {}
  /\ Finish
  /\ UNCHANGED <<fs, mtime, from, to, pending, fault, stdout, entry>>
  /\ UNCHANGED Static

\* --load-save-file <name>: the matching directories of "Save Files" are
\* sorted by name, descending, and the first is copied into the profile.
LoadSaveFileFlag ==
  /\ AtFlag("load-save-file")
  /\ LET dir == Join(Profile, "Save Files")
         found == list_name_contains(fs, dir, args["load-save-file"])
         cmp == [a \in found, b \in found |-> CmpStr(FileName(b), FileName(a))]
     IN  \/ /\ Throw("read_dir", ~IsDir(fs, dir))
            /\ UNCHANGED <<fs, mtime, pi, pos, stage, from, to, pending, stdout, entry, ran>>
         \/ /\ IsDir(fs, dir)
            /\ \E o \in Orders(found) :
                 LET sorted == SortBy(o, cmp) IN
                 /\ sorted # <<>>
                 /\ Enter(fs, mtime, sorted[1], Profile, {})
         \/ /\ IsDir(fs, dir)
            /\ found = {}
            /\ Finish
            /\ UNCHANGED <<fs, mtime, from, to, pending, fault, stdout, entry>>
  /\ UNCHANGED Static

\* chrono::Local::now(): the local times at which the model's runs happen.
Clock ==
  {[year |-> 2019, month |-> 3, day |-> 9, hour |-> 7, minute |-> 5, second |-> 0],
   [year |-> 2019, month |-> 11, day |-> 23, hour |-> 18, minute |-> 40, second |-> 59]}

RECURSIVE ZeroPad(_, _)
ZeroPad(str, width) == IF Len(str) >= width THEN str ELSE ZeroPad("0" \o str, width)

\* when.format("%Y-%m-%d_%H%M%S")
FormatWhen(w) ==
  ZeroPad(ToString(w.year), 4) \o "-" \o ZeroPad(ToString(w.month), 2) \o "-"
    \o ZeroPad(ToString(w.day), 2) \o "_" \o ZeroPad(ToString(w.hour), 2)
    \o ZeroPad(ToString(w.minute), 2) \o ZeroPad(ToString(w.second), 2)

\* format!("dated-{}", ..)
DatedName(w) == "dated-" \o FormatWhen(w)

\* --save-dated
SaveDatedFlag ==
  /\ AtFlag("save-dated")
  /\ \E w \in Clock : \E o \in OpenSlot(Profile, DatedName(w)) :
       Enter(o.fs, o.mtime, Profile, o.slot, o.earlier)
  /\ UNCHANGED Static

\* --clear-profile
ClearFlag ==
  /\ AtFlag("clear-profile")
  /\ Enter(fs, mtime, <<>>, Profile, {})
  /\ UNCHANGED Static

\* delete_save_files(&profile) returned Ok(()) to --clear-profile.
ClearDone ==
  /\ result = "running" /\ stage = "delete" /\ pending = {} /\ Flag = "clear-profile"
  /\ Finish
  /\ UNCHANGED <<fs, mtime, from, to, pending, fault, stdout, entry>>
  /\ UNCHANGED Static

\* find_newest_slot(profile, nth): the tree ensure_slot leaves, the slot at
\* index nth of the slots sorted by modification time, descending (found is
\* FALSE for None), and the calls that may have failed.
find_newest_slot(profile, nth) ==
  LET slots == SlotsOf(profile)
      f1 == IF IsDir(fs, slots) THEN fs ELSE CreateDir(fs, slots)
      listed == find_matching(f1, slots, "dir", [n \in Names(f1, slots) |-> TRUE])
      cmp == [a \in listed, b \in listed |-> CmpInt(mtime[b], mtime[a])]
      e1 == IF IsDir(fs, slots) THEN {} ELSE {Fault(fs, mtime, "create_dir", FALSE)}
      e2 == {Fault(f1, mtime, "read_dir", FALSE)}
      e3 == IF listed = {} THEN {} ELSE {Fault(f1, mtime, "metadata", FALSE)}
  IN  {[fs |-> f1,
        found |-> nth < Len(SortBy(o, cmp)),
        path |-> IF nth < Len(SortBy(o, cmp)) THEN SortBy(o, cmp)[nth + 1] ELSE <<>>,
        failed |-> e1 \cup e2 \cup e3] : o \in Orders(listed)}

\* The flag's value is no usize, or find_newest_slot fails.
NthFails(flag) ==
  LET nth == ParseUsize(args[flag]) IN
  /\ \/ /\ ~nth.ok
        /\ Throw("parse", TRUE)
        /\ UNCHANGED <<fs, mtime>>
     \/ /\ nth.ok
        /\ \E r \in find_newest_slot(Profile, nth.v) : \E x \in r.failed :
             /\ fs' = x.fs /\ mtime' = x.mtime
             /\ Throw(x.call, x.forced)
  /\ UNCHANGED <<pi, pos, stage, from, to, pending, stdout, entry, ran>>

\* find_newest_slot returned None: nothing to do.
NthNone(flag) ==
  LET nth == ParseUsize(args[flag]) IN
  /\ nth.ok
  /\ \E r \in find_newest_slot(Profile, nth.v) :
       /\ ~r.found
       /\ fs' = r.fs
  /\ Finish
  /\ UNCHANGED <<mtime, from, to, pending, fault, stdout, entry>>

\* --load-nth-newest-slot <nth>
LoadNthFlag ==
  /\ AtFlag("load-nth-newest-slot")
  /\ LET nth == ParseUsize(args["load-nth-newest-slot"]) IN
     \/ NthFails("load-nth-newest-slot")
     \/ NthNone("load-nth-newest-slot")
     \/ /\ nth.ok
        /\ \E r \in find_newest_slot(Profile, nth.v) :
             /\ r.found
             /\ Enter(r.fs, mtime, r.path, Profile, {})
  /\ UNCHANGED Static

\* --delete-nth-newest-slot <nth>
DeleteNthFlag ==
  /\ AtFlag("delete-nth-newest-slot")
  /\ LET nth == ParseUsize(args["delete-nth-newest-slot"]) IN
     \/ NthFails("delete-nth-newest-slot")
     \/ NthNone("delete-nth-newest-slot")
     \/ /\ nth.ok
        /\ \E r \in find_newest_slot(Profile, nth.v) :
             /\ r.found
             /\ Enter(r.fs, mtime, <<>>, r.path, {})
  /\ UNCHANGED Static

\* Variant: the failure of fs::remove_dir is returned with `?`.
RemoveSlotDirFatal ==
  /\ result = "running" /\ stage = "delete" /\ pending = {}
  /\ Flag = "delete-nth-newest-slot"
  /\ \/ /\ Entries(fs, to) = {}
        /\ fs' = Remove(fs, to)
        /\ mtime' = Untouch(mtime, to)
        /\ Finish
        /\ UNCHANGED <<fault, stdout>>
     \/ /\ Throw("remove_dir", Entries(fs, to) # {})
        /\ UNCHANGED <<fs, mtime, stdout, pi, pos, stage, ran>>
  /\ UNCHANGED <<from, to, pending, entry>>
  /\ UNCHANGED Static

\* --delete-nth-newest-slot after delete_save_files(&path): fs::remove_dir;
\* its failure is printed, with the error and not the path, and the run goes
\* on.
RemoveSlotDir ==
  /\ result = "running" /\ stage = "delete" /\ pending = {}
  /\ Flag = "delete-nth-newest-slot"
  /\ \/ /\ Entries(fs, to) = {}
        /\ fs' = Remove(fs, to)
        /\ mtime' = Untouch(mtime, to)
        /\ UNCHANGED <<fault, stdout>>
     \/ /\ fault' = [call |-> "remove_dir", forced |-> Entries(fs, to) # {}]
        /\ stdout' = Append(stdout, <<"Failed to remove directory",
                                       IF Entries(fs, to) # {} THEN "not empty" ELSE "other">>)
        /\ UNCHANGED <<fs, mtime>>
  /\ Finish
  /\ UNCHANGED <<from, to, pending, entry>>
  /\ UNCHANGED Static

NoFault == [call |-> "none", forced |-> FALSE]

\* main() up to the loop over the profiles.
Startup ==
  /\ result = "running" /\ stage = "start"
  /\ \/ /\ ~home
        /\ Throw("env", TRUE)
        /\ UNCHANGED <<profiles, stage, stdout>>
     \/ /\ home /\ ~IsDir(fs, ProfilesDir)
        /\ stdout' = Append(stdout, <<"Missing profile directory">>)
        /\ result' = "ok" /\ stage' = "exit"
        /\ UNCHANGED <<profiles, fault>>
     \/ /\ home /\ IsDir(fs, ProfilesDir)
        /\ Throw("read_dir", FALSE)
        /\ UNCHANGED <<profiles, stage, stdout>>
     \/ /\ home /\ IsDir(fs, ProfilesDir)
        /\ \E o \in Orders({q \in Entries(fs, ProfilesDir) : IsDir(fs, q)}) : profiles' = o
        /\ IF profiles' = <<>>
           THEN result' = "ok" /\ stage' = "exit"
           ELSE result' = result /\ stage' = "flag"
        /\ UNCHANGED <<fault, stdout>>
  /\ UNCHANGED <<fs, mtime, home, args, pi, pos, from, to, pending, run, fs0, entry, ran>>

\* The state in which the program is started with the command line a, in the
\* tree f with the slot times m.
Started(f, m, h, a) ==
  /\ fs = f /\ mtime = m /\ home = h /\ args = a
  /\ profiles = <<>> /\ pi = 1 /\ pos = 1 /\ stage = "start"
  /\ from = <<>> /\ to = <<>> /\ pending = {}
  /\ result = "running" /\ fault = NoFault /\ stdout = <<>>
  /\ run = "first" /\ fs0 = f /\ entry = f /\ ran = <<>>

----------------------------------------------------------------------------
(* The trees and command lines the runs start from. *)

\* The names save files take in the model.
SaveNames == {"SGTA001", "SGTA002"}

\* What a directory holds under a name: 0 nothing, a content in Data a file,
\* MaxData + 1 a directory.
Kinds == 0..(MaxData + 1)

FileKinds == 0..MaxData

Populate(dir, c) ==
  [q \in {Join(dir, n) : n \in {n \in DOMAIN c : c[n] # 0}} |->
     IF c[FileName(q)] > MaxData THEN DirNode ELSE File(c[FileName(q)])]

\* The union of trees over disjoint paths.
Merge(S) == [q \in UNION {DOMAIN g : g \in S} |-> (CHOOSE g \in S : q \in DOMAIN g)[q]]

ProfilePath(p) == Join(ProfilesDir, p)

SlotPath(p, s) == Join(SlotsOf(ProfilePath(p)), s)

\* The tree of profile p: the entries `own` directly in it, a Slots directory
\* when hasSlots, the slots of DOMAIN slots with their entries, and the
\* "Save Files" directories of DOMAIN saved with theirs.
ProfileTree(p, own, hasSlots, slots, saved) ==
  Merge({(ProfilePath(p) :> DirNode),
         Populate(ProfilePath(p), own),
         Populate(ProfilePath(p), IF hasSlots THEN ("Slots" :> MaxData + 1) ELSE <<>>),
         Populate(ProfilePath(p), ("Save Files" :> MaxData + 1))}
        \cup {(SlotPath(p, s) :> DirNode) : s \in DOMAIN slots}
        \cup {Populate(SlotPath(p, s), slots[s]) : s \in DOMAIN slots}
        \cup {(Join(Join(ProfilePath(p), "Save Files"), d) :> DirNode) : d \in DOMAIN saved}
        \cup {Populate(Join(Join(ProfilePath(p), "Save Files"), d), saved[d]) : d \in DOMAIN saved})

Root == (ProfilesDir :> DirNode)

\* Entries that are no save files: a file whose name holds "SGTA" without
\* starting with it, and a directory whose name starts with "SGTA".
Others == ("cfgSGTA" :> 1) @@ ("SGTAbak" :> MaxData + 1)

\* The runs every specification starts from: no USERPROFILE, no Profiles
\* directory, no profile in it.
InitBare ==
  \/ Started(Root, <<>>, FALSE, ("clear-profile" :> ""))
  \/ Started(<<>>, <<>>, TRUE, ("clear-profile" :> ""))
  \/ Started(Root, <<>>, TRUE, ("clear-profile" :> ""))

\* --save slot1 or --load slot1 for one profile: the profile and the slot
\* hold any files or directories under the save names; the slot, or the
\* Slots directory, may not exist.
InitTransfer ==
  \/ \E a \in {("save" :> "slot1"), ("load" :> "slot1")} :
     \E own \in [SaveNames -> Kinds] :
       \/ \E hasSlots \in BOOLEAN :
            Started(Root @@ ProfileTree("p1", own @@ Others, hasSlots, <<>>, <<>>),
                    <<>>, TRUE, a)
       \/ \E held \in [SaveNames -> Kinds] :
            Started(Root @@ ProfileTree("p1", own @@ Others, TRUE,
                                        ("slot1" :> (held @@ Others)), <<>>),
                    (SlotPath("p1", "slot1") :> 1), TRUE, a)
  \/ InitBare

NextTransfer ==
  \/ Startup
  \/ SkipFlag
  \/ SaveFlag
  \/ LoadFlag
  \/ DeleteStep
  \/ ListFrom
  \/ CopyStep
  \/ CopyDone

SpecTransfer == InitTransfer /\ [][NextTransfer]_vars

\* The tree f after the game rewrote the save files of the profile `dir`: its
\* save files are gone and it holds the files c gives, where no directory is
\* in the way.
Rewritten(f, dir, c) ==
  LET kept == {q \in DOMAIN f : ~(q \in list_save_files(f, dir))}
      put == {Join(dir, n) : n \in {n \in DOMAIN c : c[n] # 0 /\ ~IsDir(f, Join(dir, n))}}
  IN  [q \in kept \cup put |-> IF q \in put THEN File(c[FileName(q)]) ELSE f[q]]

\* The program is started a second time, with `--load` for the slot the first
\* run saved to, after the first run ended Ok and the save files of the
\* profiles changed in any way.
Rerun ==
  /\ run = "first" /\ result = "ok" /\ "save" \in DOMAIN args
  /\ args' = ("load" :> args["save"])
  /\ \E c \in [SaveNames -> FileKinds] :
       fs' = IF profiles = <<>> THEN fs ELSE Rewritten(fs, profiles[1], c)
  /\ entry' = fs'
  /\ run' = "second"
  /\ profiles' = <<>> /\ pi' = 1 /\ pos' = 1 /\ stage' = "start"
  /\ from' = <<>> /\ to' = <<>> /\ pending' = {}
  /\ result' = "running" /\ fault' = NoFault /\ stdout' = <<>> /\ ran' = <<>>
  /\ UNCHANGED <<mtime, home, fs0>>

\* --save slot1 for one profile, as in InitTransfer.
InitRoundTrip ==
  \/ \E own \in [SaveNames -> Kinds] :
       \/ \E hasSlots \in BOOLEAN :
            Started(Root @@ ProfileTree("p1", own @@ Others, hasSlots, <<>>, <<>>),
                    <<>>, TRUE, ("save" :> "slot1"))
       \/ \E held \in [SaveNames -> Kinds] :
            Started(Root @@ ProfileTree("p1", own @@ Others, TRUE,
                                        ("slot1" :> (held @@ Others)), <<>>),
                    (SlotPath("p1", "slot1") :> 1), TRUE, ("save" :> "slot1"))
  \/ InitBare

NextRoundTrip ==
  \/ Startup
  \/ SkipFlag
  \/ SaveFlag
  \/ LoadFlag
  \/ DeleteStep
  \/ ListFrom
  \/ CopyStep
  \/ CopyDone
  \/ Rerun

SpecRoundTrip == InitRoundTrip /\ [][NextRoundTrip]_vars

SlotNames == {"slot1", "slot2", "slot3"}

\* What each slot holds when it exists: slot1 a save file and entries that
\* are no save files, slot2 and slot3 save files only.
SlotFill(s) ==
  CASE s = "slot1" -> ("SGTA001" :> 1) @@ Others
    [] s = "slot2" -> ("SGTA002" :> 1)
    [] s = "slot3" -> ("SGTA001" :> MaxData) @@ ("SGTA002" :> MaxData)

\* The values of --load-nth-newest-slot and --delete-nth-newest-slot.
NthValues == {"0", "1", "2", "3", "+1", "x"}

\* A second profile, with a slot fs::remove_dir can remove and one it cannot.
SecondProfile ==
  ProfileTree("p2", ("SGTA002" :> 1), TRUE, [s \in {"slot1", "slot2"} |-> SlotFill(s)], <<>>)

SecondTimes == (SlotPath("p2", "slot1") :> 1) @@ (SlotPath("p2", "slot2") :> MaxTime)

\* --load-nth-newest-slot or --delete-nth-newest-slot for two profiles, the
\* first with any of three slots at any times, or without a Slots directory.
InitNth ==
  \/ \E flag \in {"load-nth-newest-slot", "delete-nth-newest-slot"} : \E v \in NthValues :
       \/ \E S \in SUBSET SlotNames : \E tm \in [S -> Times] :
            Started(Root @@ SecondProfile
                      @@ ProfileTree("p1", ("SGTA001" :> MaxData) @@ Others, TRUE,
                                     [s \in S |-> SlotFill(s)], <<>>),
                    SecondTimes @@ [d \in {SlotPath("p1", s) : s \in S} |-> tm[d[Len(d)]]],
                    TRUE, (flag :> v))
       \/ Started(Root @@ SecondProfile
                    @@ ProfileTree("p1", ("SGTA001" :> MaxData) @@ Others, FALSE, <<>>, <<>>),
                  SecondTimes, TRUE, (flag :> v))
  \/ InitBare

NextNth ==
  \/ Startup
  \/ SkipFlag
  \/ LoadNthFlag
  \/ DeleteNthFlag
  \/ DeleteStep
  \/ ListFrom
  \/ CopyStep
  \/ CopyDone
  \/ RemoveSlotDir

SpecNth == InitNth /\ [][NextNth]_vars

\* The directories "Save Files" may hold, and what each holds.
SavedNames == {"ab", "abc", "b"}

SavedFill(d) ==
  CASE d = "ab"  -> ("SGTA001" :> 1)
    [] d = "abc" -> ("SGTA002" :> 1) @@ Others
    [] d = "b"   -> ("SGTA001" :> MaxData) @@ ("SGTA002" :> MaxData)

\* The values of --load-save-file.
SavedValues == {"b", "ab", "c", "z", "x"}

\* --load-save-file for one profile that holds any files or directories under
\* the save names and whose "Save Files" holds any of three directories and a
\* regular file z; or that has no "Save Files".
InitSaved ==
  \/ \E v \in SavedValues : \E own \in [SaveNames -> Kinds] :
       \/ \E S \in SUBSET SavedNames :
            Started(Root @@ (Join(Join(ProfilePath("p1"), "Save Files"), "z") :> File(1))
                      @@ ProfileTree("p1", own @@ Others, TRUE, <<>>,
                                     [d \in S |-> SavedFill(d)]),
                    <<>>, TRUE, ("load-save-file" :> v))
       \/ Started(Remove(Root @@ ProfileTree("p1", own @@ Others, TRUE, <<>>, <<>>),
                         Join(ProfilePath("p1"), "Save Files")),
                  <<>>, TRUE, ("load-save-file" :> v))
  \/ InitBare

NextSaved ==
  \/ Startup
  \/ SkipFlag
  \/ LoadSaveFileFlag
  \/ DeleteStep
  \/ ListFrom
  \/ CopyStep
  \/ CopyDone

SpecSaved == InitSaved /\ [][NextSaved]_vars

\* The value each flag takes in the runs that combine flags.
FlagValue(f) ==
  CASE f = "save" -> "slot1"
    [] f = "load" -> "slot2"
    [] f = "load-save-file" -> "b"
    [] f = "load-nth-newest-slot" -> "0"
    [] f = "delete-nth-newest-slot" -> "1"
    [] OTHER -> ""

AllFlags == {FlagOrder[i] : i \in 1..Len(FlagOrder)}

\* The first profile of the runs that combine flags: two slots and a
\* directory of "Save Files", each with files of its own.
FirstProfile(own) ==
  ProfileTree("p1", own @@ Others, TRUE,
              [s \in {"slot1", "slot2"} |-> SlotFill(s)],
              [d \in {"b"} |-> SavedFill(d)])

\* How many flags one run combines.
MaxFlags == 2

\* Any combination of up to MaxFlags flags, for two profiles; the first holds
\* one save file or two.
Init ==
  \/ \E F \in {G \in SUBSET AllFlags : Cardinality(G) <= MaxFlags} :
     \E own \in {("SGTA001" :> MaxData), ("SGTA001" :> 1) @@ ("SGTA002" :> MaxData)} :
       Started(Root @@ SecondProfile @@ FirstProfile(own),
               SecondTimes @@ (SlotPath("p1", "slot1") :> 1) @@ (SlotPath("p1", "slot2") :> 2),
               TRUE, [f \in F |-> FlagValue(f)])
  \/ InitBare

Next ==
  \/ Startup
  \/ SkipFlag
  \/ SaveFlag
  \/ LoadFlag
  \/ LoadSaveFileFlag
  \/ SaveDatedFlag
  \/ ClearFlag
  \/ ClearDone
  \/ LoadNthFlag
  \/ DeleteNthFlag
  \/ DeleteStep
  \/ ListFrom
  \/ CopyStep
  \/ CopyDone
  \/ RemoveSlotDir

Spec == Init /\ [][Next]_vars

----------------------------------------------------------------------------
(* The claims.  What a save file is, is restated here from the claims'     *)
(* words, apart from the scans of the model.                               *)

\* A save file: a regular file whose name starts with "SGTA".
IsSaveFile(f, q) ==
  /\ q \in DOMAIN f
  /\ f[q].k = "file"
  /\ LET c == Chars(FileName(q)) IN
       Len(c) >= 4 /\ c[1] = "S" /\ c[2] = "G" /\ c[3] = "T" /\ c[4] = "A"

Directly(q, dir) == Len(q) = Len(dir) + 1 /\ SubSeq(q, 1, Len(dir)) = dir

Under(q, dir) == Len(q) >= Len(dir) /\ SubSeq(q, 1, Len(dir)) = dir

\* The save files directly in dir: name -> content.
SavedIn(f, dir) ==
  [n \in {q[Len(q)] : q \in {q \in DOMAIN f : Directly(q, dir) /\ IsSaveFile(f, q)}} |->
     f[Append(dir, n)].d]

\* copy_save_files(from, to) is running (its delete_save_files included).
InTransfer ==
  /\ result = "running" /\ stage \in {"delete", "copy"}
  /\ from # <<>> /\ from # to

\* copy_save_files(from, to) is about to return Ok(()).
TransferDone == InTransfer /\ stage = "copy" /\ pending = {}

\* C1: a successful copy_save_files(from, to) between distinct directories
\* first removes every save file directly in `to` and only then copies: while
\* it deletes, `to` holds only save files it held on entry; when the deleting
\* is over `to` holds none; while it copies, every save file of `to` is a copy
\* of the file of that name in `from`; and when it returns, the save files of
\* `to` are those of `from`, by name and by content.
C1_TransferReplaces ==
  InTransfer =>
    /\ stage = "delete" =>
         \A n \in DOMAIN SavedIn(fs, to) :
           n \in DOMAIN SavedIn(entry, to) /\ SavedIn(fs, to)[n] = SavedIn(entry, to)[n]
    /\ (stage = "delete" /\ pending = {}) => SavedIn(fs, to) = <<>>
    /\ stage = "copy" =>
         \A n \in DOMAIN SavedIn(fs, to) :
           n \in DOMAIN SavedIn(fs, from) /\ SavedIn(fs, to)[n] = SavedIn(fs, from)[n]
    /\ TransferDone => SavedIn(fs, to) = SavedIn(fs, from)

\* A transfer of two files is over, into a directory that held two others.
C1_Witness ==
  /\ TransferDone
  /\ Cardinality(DOMAIN SavedIn(fs, from)) = 2
  /\ Cardinality(DOMAIN SavedIn(entry, to)) = 2
  /\ \A n \in DOMAIN SavedIn(entry, to) : SavedIn(entry, to)[n] # SavedIn(fs, to)[n]

\* C9: a copy_save_files(from, to) between distinct directories changes
\* nothing but the save files directly in `to`: every other path of the tree,
\* the files of `from` among them, exists after as before with the same node.
C9_TransferFrame ==
  InTransfer =>
    \A q \in DOMAIN entry \cup DOMAIN fs :
      ~(Directly(q, to) /\ (IsSaveFile(entry, q) \/ IsSaveFile(fs, q))) =>
        q \in DOMAIN entry /\ q \in DOMAIN fs /\ fs[q] = entry[q]

\* A transfer is over that copied a file out of a directory into one that
\* holds entries that are no save files.
C9_Witness ==
  /\ TransferDone
  /\ SavedIn(fs, from) # <<>>
  /\ SavedIn(fs, to) # SavedIn(entry, to)
  /\ \E q \in DOMAIN fs : Directly(q, to) /\ ~IsSaveFile(fs, q) /\ fs[q].k = "dir"
  /\ \E q \in DOMAIN fs : Directly(q, to) /\ ~IsSaveFile(fs, q) /\ fs[q].k = "file"

\* The run is `--load slot1` for one profile whose slot1 did not exist.
LoadsMissingSlot ==
  /\ run = "first"
  /\ args = ("load" :> "slot1")
  /\ Len(profiles) = 1
  /\ Append(Append(profiles[1], "Slots"), "slot1") \notin DOMAIN fs0

\* C10: `--load s` for a slot s that does not exist does not fail for that
\* (no call fails but one the environment fails) and, when the run ends Ok,
\* Slots/s exists and is empty, the profile holds no save file, every save
\* file it held was deleted and nothing was copied.
C10_LoadMissingSlot ==
  LoadsMissingSlot =>
    /\ ~fault.forced
    /\ result = "ok" =>
         /\ Append(Append(profiles[1], "Slots"), "slot1") \in DOMAIN fs
         /\ fs[Append(Append(profiles[1], "Slots"), "slot1")].k = "dir"
         /\ \A q \in DOMAIN fs : ~Directly(q, Append(Append(profiles[1], "Slots"), "slot1"))
         /\ SavedIn(fs, profiles[1]) = <<>>
         /\ \A i \in 1..Len(stdout) : stdout[i][1] # "copy"
         /\ \A n \in DOMAIN SavedIn(fs0, profiles[1]) :
              \E i \in 1..Len(stdout) : stdout[i] = <<"delete", Append(profiles[1], n)>>

\* Such a run ended Ok for a profile that held two save files.
C10_Witness ==
  /\ LoadsMissingSlot
  /\ result = "ok"
  /\ Cardinality(DOMAIN SavedIn(fs0, profiles[1])) = 2

\* C2: `--save s`, then any change of the profile's save files that leaves
\* slot s alone, then `--load s`: when the second run ends Ok the profile
\* holds the save files, by name and by content, it held when `--save s` ran.
C2_RoundTrip ==
  (run = "second" /\ result = "ok") =>
    \A i \in 1..Len(profiles) : SavedIn(fs, profiles[i]) = SavedIn(fs0, profiles[i])

\* The second run ended Ok for a profile that held two save files when the
\* first started and none, or others, when the second started.
C2_Witness ==
  /\ run = "second" /\ result = "ok"
  /\ Len(profiles) = 1
  /\ Cardinality(DOMAIN SavedIn(fs0, profiles[1])) = 2
  /\ ran = <<<<profiles[1], "load">>>>
  /\ \A n \in DOMAIN SavedIn(fs0, profiles[1]) :
       n \notin DOMAIN SavedIn(entry, profiles[1])
         \/ SavedIn(entry, profiles[1])[n] # SavedIn(fs0, profiles[1])[n]

\* The slots of profile p: the directories directly in p/Slots.
SlotsIn(f, p) == {q \in DOMAIN f : Directly(q, Append(p, "Slots")) /\ f[q].k = "dir"}

\* Slot c is at rank n of the slots of p by descending modification time:
\* at most n slots are newer than c, and more than n are as new or newer.
AtRank(c, n, f, m, p) ==
  /\ c \in SlotsIn(f, p)
  /\ Cardinality({x \in SlotsIn(f, p) : m[x] > m[c]}) <= n
  /\ Cardinality({x \in SlotsIn(f, p) : m[x] >= m[c]}) >= n + 1

LastRan == ran[Len(ran)]

\* C3: find_newest_slot(profile, n) returns the slot at rank n by descending
\* modification time, rank 0 a newest one, and none when n is not below the
\* number of slots: --load-nth-newest-slot n copies from a slot at rank n
\* into the profile, whose save files are then that slot's, and with no such
\* slot the profile keeps its save files and nothing is printed.
C3_NthNewestSlot ==
  ("load-nth-newest-slot" \in DOMAIN args /\ ParseUsize(args["load-nth-newest-slot"]).ok) =>
    LET n == ParseUsize(args["load-nth-newest-slot"]).v IN
    /\ (InTransfer /\ Flag = "load-nth-newest-slot") =>
         /\ to = Profile
         /\ AtRank(from, n, fs, mtime, Profile)
    /\ (ran # <<>> /\ LastRan[2] = "load-nth-newest-slot" /\ stage \in {"flag", "exit"}) =>
         IF n < Cardinality(SlotsIn(fs, LastRan[1]))
         THEN /\ AtRank(from, n, fs, mtime, LastRan[1])
              /\ SavedIn(fs, LastRan[1]) = SavedIn(fs, from)
         ELSE /\ SavedIn(fs, LastRan[1]) = SavedIn(fs0, LastRan[1])
              /\ \A i \in 1..Len(stdout) :
                   ~Under(stdout[i][Len(stdout[i])], LastRan[1])

\* --load-nth-newest-slot 0 loaded among three slots of distinct times.
C3_Witness ==
  /\ args = ("load-nth-newest-slot" :> "0")
  /\ ran # <<>> /\ LastRan[2] = "load-nth-newest-slot" /\ stage \in {"flag", "exit"}
  /\ Cardinality(SlotsIn(fs, LastRan[1])) = 3
  /\ \A x, y \in SlotsIn(fs, LastRan[1]) : x # y => mtime[x] # mtime[y]
  /\ SavedIn(fs, LastRan[1]) # SavedIn(fs0, LastRan[1])
  /\ \A x \in SlotsIn(fs, LastRan[1]) : mtime[x] <= mtime[from]

\* C8: --delete-nth-newest-slot n with n in range deletes the save files of
\* the slot at rank n, and nothing else, and then removes the slot directory;
\* when the removal fails the failure is printed, the slot stays without save
\* files, and the run goes on: to the next profile, or to Ok after the last.
\* No run ends in the error of a remove_dir.  With n out of range nothing of
\* the profile is deleted.
C8_DeleteNthSlot ==
  (DOMAIN args = {"delete-nth-newest-slot"} /\ ParseUsize(args["delete-nth-newest-slot"]).ok) =>
    LET n == ParseUsize(args["delete-nth-newest-slot"]).v IN
    /\ (result = "running" /\ stage = "delete" /\ fs = entry) =>
         AtRank(to, n, fs, mtime, Profile)
    /\ stage = "delete" =>
         \A q \in DOMAIN entry :
           ~(Directly(q, to) /\ IsSaveFile(entry, q)) => (q \in DOMAIN fs /\ fs[q] = entry[q])
    /\ result = "err" => fault.call # "remove_dir"
    /\ (ran # <<>> /\ stage \in {"flag", "exit"}) =>
         /\ IF LastRan[1] = profiles[Len(profiles)]
            THEN result = "ok"
            ELSE \E i \in 1..Len(profiles) - 1 : profiles[i] = LastRan[1] /\ pi = i + 1
         /\ IF n < Cardinality(SlotsIn(fs0, LastRan[1]))
            THEN /\ to \in SlotsIn(fs0, LastRan[1])
                 /\ SavedIn(fs, to) = <<>>
                 /\ \/ to \notin DOMAIN fs
                    \/ /\ fs[to].k = "dir"
                       /\ stdout # <<>>
                       /\ stdout[Len(stdout)][1] = "Failed to remove directory"
                 /\ \A q \in DOMAIN fs0 :
                      (Under(q, LastRan[1])
                         /\ ~(q = to \/ (Directly(q, to) /\ IsSaveFile(fs0, q)))) =>
                        (q \in DOMAIN fs /\ fs[q] = fs0[q])
            ELSE \A q \in DOMAIN fs0 :
                   Under(q, LastRan[1]) => (q \in DOMAIN fs /\ fs[q] = fs0[q])

\* A run over two profiles ended Ok after a slot of the first profile could
\* not be removed, and stays without its save file, and a slot of the second
\* was removed.
C8_Witness ==
  /\ DOMAIN args = {"delete-nth-newest-slot"}
  /\ result = "ok" /\ Len(profiles) = 2 /\ Len(ran) = 2
  /\ \E c \in SlotsIn(fs, profiles[1]) :
       /\ SavedIn(fs0, c) # <<>> /\ SavedIn(fs, c) = <<>>
       /\ \E i \in 1..Len(stdout) : stdout[i][1] = "Failed to remove directory"
  /\ \E c \in SlotsIn(fs0, profiles[2]) : c \notin DOMAIN fs

\* The names of the model's "Save Files" entries in lexicographic order, and
\* for each value of --load-save-file the names that contain it.
Lexicographic == <<"ab", "abc", "b", "z">>

Containing(v) ==
  CASE v = "b"  -> {"ab", "abc", "b"}
    [] v = "ab" -> {"ab", "abc"}
    [] v = "c"  -> {"abc"}
    [] v = "z"  -> {"z"}
    [] v = "x"  -> {}

Place(n) == CHOOSE i \in 1..Len(Lexicographic) : Lexicographic[i] = n

\* The directories directly in "Save Files" of profile p whose name contains v.
Candidates(f, p, v) ==
  {q \in DOMAIN f : /\ Directly(q, Append(p, "Save Files"))
                    /\ f[q].k = "dir"
                    /\ q[Len(q)] \in Containing(v)}

\* C6: --load-save-file <name> copies into the profile from the directory of
\* "Save Files" with the lexicographically greatest name among those whose
\* name contains <name>, and the profile's save files become that directory's;
\* when no directory matches, nothing of the tree changes and nothing is
\* printed.
C6_LoadSaveFile ==
  DOMAIN args = {"load-save-file"} =>
    /\ (InTransfer /\ Flag = "load-save-file") =>
         /\ to = Profile
         /\ from \in Candidates(fs, Profile, args["load-save-file"])
         /\ \A q \in Candidates(fs, Profile, args["load-save-file"]) :
              Place(q[Len(q)]) <= Place(from[Len(from)])
    /\ (ran # <<>> /\ Candidates(fs0, LastRan[1], args["load-save-file"]) # {}) =>
         /\ from \in Candidates(fs, LastRan[1], args["load-save-file"])
         /\ SavedIn(fs, LastRan[1]) = SavedIn(fs, from)
    /\ (profiles # <<>> /\ Candidates(fs0, profiles[1], args["load-save-file"]) = {}) =>
         fs = fs0 /\ stdout = <<>>

\* --load-save-file b ended with the files of "Save Files"/b in a profile that
\* held others, ab and abc being there too.
C6_Witness ==
  /\ args = ("load-save-file" :> "b")
  /\ result = "ok" /\ ran # <<>>
  /\ Cardinality(Candidates(fs, LastRan[1], "b")) = 3
  /\ from[Len(from)] = "b"
  /\ SavedIn(fs, LastRan[1]) = SavedIn(fs, from)
  /\ SavedIn(fs0, LastRan[1]) # <<>>
  /\ SavedIn(fs, LastRan[1]) # SavedIn(fs0, LastRan[1])

\* --load-save-file z ended Ok where z is a regular file: nothing matched.
C6_WitnessNone ==
  /\ args = ("load-save-file" :> "z")
  /\ result = "ok" /\ ran # <<>>
  /\ SavedIn(fs, LastRan[1]) # <<>>

\* The names of the dated slots at the times of the model's runs, as
\* dated-<year>-<month>-<day>_<hour><minute><second>.
DatedNames == {"dated-2019-03-09_070500", "dated-2019-11-23_184059"}

\* The dated slots of profile p.
DatedIn(f, p) == {q \in SlotsIn(f, p) : q[Len(q)] \in DatedNames}

\* C4: after a successful run with `--save-dated` (and no other flag), for
\* every profile found a slot Slots/dated-<timestamp> holds the save files the
\* profile had, and the profile directory itself holds no save files.
C4_SaveDatedRemoves ==
  (DOMAIN args = {"save-dated"} /\ result = "ok") =>
    \A i \in 1..Len(profiles) :
      /\ \E q \in DatedIn(fs, profiles[i]) : SavedIn(fs, q) = SavedIn(fs0, profiles[i])
      /\ SavedIn(fs, profiles[i]) = <<>>

\* The part of C4 the code does: the dated slot holds the save files the
\* profile had, and the profile holds them still.
C4_SaveDatedCopies ==
  (DOMAIN args = {"save-dated"} /\ result = "ok") =>
    \A i \in 1..Len(profiles) :
      /\ \E q \in DatedIn(fs, profiles[i]) : SavedIn(fs, q) = SavedIn(fs0, profiles[i])
      /\ SavedIn(fs, profiles[i]) = SavedIn(fs0, profiles[i])

\* The order of the flags, as the program's usage lists them.
ClaimedOrder ==
  <<"save", "load", "load-save-file", "save-dated", "clear-profile",
    "load-nth-newest-slot", "delete-nth-newest-slot">>

\* The flags given, in that order.
Given == SelectSeq(ClaimedOrder, LAMBDA f : f \in DOMAIN args)

\* The operations of a run that ends Ok: for each profile in the order found,
\* each flag given.
RECURSIVE Plan(_)
Plan(i) ==
  IF i > Len(profiles) THEN <<>>
  ELSE [j \in 1..Len(Given) |-> <<profiles[i], Given[j]>>] \o Plan(i + 1)

IsPrefix(a, b) == Len(a) <= Len(b) /\ SubSeq(b, 1, Len(a)) = a

\* delete_save_files(to), called on its own, is about to return Ok(()).
ClearingDone ==
  result = "running" /\ stage = "delete" /\ pending = {} /\ from = <<>> /\ to # <<>>

\* C5 as claimed: the flags are independent, so a transfer delivers to its
\* destination the save files its source held in the starting state, as it
\* does when its flag is given alone.
C5_FlagsIndependent ==
  TransferDone => SavedIn(fs, to) = SavedIn(fs0, from)

\* C5, amended: for every profile found, in the order found, every flag given
\* is processed in the same run, in the order save, load, load-save-file,
\* save-dated, clear-profile, load-nth-newest-slot, delete-nth-newest-slot (a
\* run that ends Ok has done all of them, a run that fails a first part of
\* them); and each operation acts on the state the earlier ones left: a
\* transfer delivers the save files its source holds when the transfer is
\* entered, and --clear-profile leaves the profile without save files.
C5_FlagsInOrder ==
  /\ IsPrefix(ran, Plan(1))
  /\ result = "ok" => ran = Plan(1)
  /\ TransferDone => SavedIn(fs, to) = SavedIn(entry, from)
  /\ ClearingDone => SavedIn(fs, to) = <<>>

\* `--load slot2 --save-dated` ended Ok for two profiles, and the dated slot
\* of the first holds the files of slot2, which the profile did not hold when
\* the run started.
C5_Witness ==
  /\ DOMAIN args = {"load", "save-dated"}
  /\ result = "ok"
  /\ Len(profiles) = 2 /\ Len(ran) = 4
  /\ \E q \in DatedIn(fs, profiles[1]) :
       /\ SavedIn(fs, q) # SavedIn(fs0, profiles[1])
       /\ SavedIn(fs, q) = SavedIn(fs0, Append(Append(profiles[1], "Slots"), args["load"]))
       /\ SavedIn(fs, q) # <<>>

\* A step in which a call fails and the run ends removes nothing, changes
\* no entry and restores nothing: what it adds is a directory the operation
\* created before the failing call, or the destination fs::copy left unfilled.
NothingUndone ==
  /\ \A q \in DOMAIN fs : q \in DOMAIN fs' /\ fs'[q] = fs[q]
  /\ \A q \in DOMAIN fs' \ DOMAIN fs :
       \/ fs'[q].k = "dir"
       \/ fault'.call = "copy" /\ Directly(q, to) /\ fs'[q] = [k |-> "file", d |-> 0]

\* C7: when a directory read, a file delete or a file copy fails, the run
\* ends in an error at that point; once it has, nothing happens any more (not
\* the rest of the transfer, nor the remaining flags, nor a later profile);
\* and the failing step undoes nothing of what was done before.
C7_AbortOnFirstError ==
  /\ [](fault.call \in {"read_dir", "remove_file", "copy"} => result = "err")
  /\ [][result = "err" => UNCHANGED vars]_vars
  /\ [][(result # "err" /\ result' = "err") => NothingUndone]_vars

\* A copy failed in the first flag's transfer for the first of two profiles,
\* a second flag being given: a save file of the destination is gone, the
\* flag's operation did not end, and the second profile is as it was.
C7_Witness ==
  /\ result = "err" /\ fault.call = "copy" /\ ~fault.forced
  /\ Len(profiles) = 2 /\ pi = 1 /\ ran = <<>>
  /\ Cardinality(DOMAIN args) = 2
  /\ \E n \in DOMAIN SavedIn(entry, to) : n \notin DOMAIN SavedIn(fs, to)
  /\ \A q \in DOMAIN fs0 : Under(q, profiles[2]) => q \in DOMAIN fs /\ fs[q] = fs0[q]

====
